---------------------------- MODULE Spec2Model ----------------------------
(***************************************************************************)
(* A model of fastq2fasta.py: argument_check, validate_fastq_format and    *)
(* fastq_to_fasta, run as the script's main block runs them, over a small  *)
(* file system.                                                            *)
(*                                                                         *)
(* Text is a sequence of one-character strings.  A path is text, a file's  *)
(* content is text, and a line is text that keeps its terminator, as the   *)
(* lines Python's text-mode readline and iteration return.                 *)
(***************************************************************************)
EXTENDS Integers, Sequences, FiniteSets, TLC

VARIABLES
    files,        \* sys.argv[1:], the argument list of the run
    fs,           \* the file system: path -> [exists, readable, data]
    wdirs,        \* the directories os.access(dir, os.W_OK) holds of
    pc,           \* the position of the script
    i,            \* argument_check: index of the file under validation
    k,            \* fastq_to_fasta: index of the file under conversion
    out_file,     \* fastq_to_fasta: the output path of the current file
    answer,       \* fastq_to_fasta: the operator's last answer
    fq_pos,       \* read position of the handle fq in the decoded input
    fa,           \* text written to the handle fa and not yet flushed
    line_num,     \* fastq_to_fasta: the line position counter
    exit_status,  \* the process exit status, -1 while the script runs
    log,          \* what the run has printed, one record per message
    run,          \* number of the current invocation of the script
    fs0,          \* history: the file system when the current run began
    src0,         \* history: content of the current input when its
                  \* iteration of the conversion loop began
    sniffed       \* history: the paths validate_fastq_format has opened

vars == <<files, fs, wdirs, pc, i, k, out_file, answer, fq_pos, fa,
          line_num, exit_status, log, run, fs0, src0, sniffed>>

---------------------------------------------------------------------------
(* Bounds of the model.                                                    *)

MaxFiles == 2     \* longest argument list
MaxLines == 6     \* most lines in an enumerated input file
MaxRuns == 2      \* invocations of the script in one behaviour

---------------------------------------------------------------------------
(* Text.                                                                   *)

NL == "\n"
CR == "\r"

Min(S) == CHOOSE x \in S : \A y \in S : x <= y
Max(S) == CHOOSE x \in S : \A y \in S : x >= y
Last(s) == s[Len(s)]

\* str.lower() on the characters the model uses
LowerChar(c) ==
    CASE c = "A" -> "a"
      [] c = "E" -> "e"
      [] c = "F" -> "f"
      [] c = "Q" -> "q"
      [] c = "S" -> "s"
      [] c = "T" -> "t"
      [] c = "Y" -> "y"
      [] OTHER -> c

Lower(s) == [j \in 1..Len(s) |-> LowerChar(s[j])]

\* str.startswith(c) for a one-character prefix
StartsWith(s, c) == Len(s) > 0 /\ s[1] = c

\* a regular expression "<suffix>$" matches s
EndsWith(s, suffix) ==
    /\ Len(s) >= Len(suffix)
    /\ SubSeq(s, Len(s) - Len(suffix) + 1, Len(s)) = suffix

\* s[1:]
Slice1(s) == IF s = <<>> THEN <<>> ELSE Tail(s)

DotFastq == <<".", "f", "a", "s", "t", "q">>
DotFq == <<".", "f", "q">>
DotFasta == <<".", "f", "a", "s", "t", "a">>
Dot == <<".">>

---------------------------------------------------------------------------
(* Files and paths.                                                        *)

\* re.sub(r'\.fastq$', '.fasta', file)
OutFile(file) ==
    IF EndsWith(file, DotFastq)
    THEN SubSeq(file, 1, Len(file) - Len(DotFastq)) \o DotFasta
    ELSE file

PA == <<"a">> \o DotFastq                              \* a.fastq
PB == <<"a">> \o DotFq                                 \* a.fq
PC == <<"d", "/", "a", ".", "F", "A", "S", "T", "Q">>  \* d/a.FASTQ
PE == <<"a">> \o DotFasta                              \* a.fasta

ArgPaths == {PA, PB, PC, PE}
FsPaths == ArgPaths \cup {OutFile(p) : p \in ArgPaths}
Dirs == {Dot, <<"d">>}

Absent == [exists |-> FALSE, readable |-> FALSE, data |-> <<>>]
File(d) == [exists |-> TRUE, readable |-> TRUE, data |-> d]
Unreadable(d) == [exists |-> TRUE, readable |-> FALSE, data |-> d]

\* os.path.isfile(path)
isfile(f, path) == f[path].exists

\* os.access(path, os.R_OK)
access_R(f, path) == f[path].readable

\* os.path.getsize(path)
getsize(f, path) == Len(f[path].data)

\* os.path.dirname(path): the text before the last "/"
dirname(path) ==
    LET slashes == {j \in 1..Len(path) : path[j] = "/"}
    IN  IF slashes = {} THEN <<>> ELSE SubSeq(path, 1, Max(slashes) - 1)

\* Text-mode decoding with universal newlines: "\r\n" and "\r" read as "\n".
RECURSIVE Translate(_)
Translate(d) ==
    IF d = <<>> THEN <<>>
    ELSE IF Head(d) = CR
         THEN IF Len(d) > 1 /\ d[2] = NL
              THEN <<NL>> \o Translate(SubSeq(d, 3, Len(d)))
              ELSE <<NL>> \o Translate(Tail(d))
         ELSE <<Head(d)>> \o Translate(Tail(d))

\* fq.readline() at offset pos of the decoded text: the text up to and with
\* the next "\n", or up to the end; empty at the end.
readline(text, pos) ==
    LET ends == {j \in pos..Len(text) : text[j] = NL}
    IN  IF pos > Len(text) THEN <<>>
        ELSE SubSeq(text, pos, IF ends = {} THEN Len(text) ELSE Min(ends))

---------------------------------------------------------------------------
(* argument_check and validate_fastq_format.                               *)

\* re.search(r'\.(fastq|fq)$', file, re.I)
ExtensionOk(file) ==
    \/ EndsWith(Lower(file), DotFastq)
    \/ EndsWith(Lower(file), DotFq)

\* validate_fastq_format without the test of the third line
SniffNoSeparatorCheck(f, file) ==
    LET text == Translate(f[file].data)
        line0 == readline(text, 1)
        line1 == readline(text, 1 + Len(line0))
        line2 == readline(text, 1 + Len(line0) + Len(line1))
        line3 == readline(text, 1 + Len(line0) + Len(line1) + Len(line2))
    IN  IF line0 = <<>> \/ line1 = <<>> \/ line2 = <<>> \/ line3 = <<>>
        THEN "incomplete"
        ELSE IF ~StartsWith(line0, "@") THEN "no_header"
        ELSE "ok"

\* validate_fastq_format(file): "ok", or the message it prints
validate_fastq_format(f, file) ==
    LET text == Translate(f[file].data)
        line0 == readline(text, 1)
        line1 == readline(text, 1 + Len(line0))
        line2 == readline(text, 1 + Len(line0) + Len(line1))
        line3 == readline(text, 1 + Len(line0) + Len(line1) + Len(line2))
    IN  IF line0 = <<>> \/ line1 = <<>> \/ line2 = <<>> \/ line3 = <<>>
        THEN "incomplete"
        ELSE IF ~StartsWith(line0, "@") THEN "no_header"
        ELSE IF ~StartsWith(line2, "+") THEN "no_separator"
        ELSE "ok"

\* One iteration of the loop of argument_check: the verdict ("ok", or the
\* message of the check that fails) and whether validate_fastq_format was
\* called.
Checked(verdict, called) == [verdict |-> verdict, sniffer |-> called]

\* CheckFile with the size test moved before the extension test
CheckFileSizeFirst(f, file) ==
    IF ~isfile(f, file) THEN Checked("not_found", FALSE)
    ELSE IF ~access_R(f, file) THEN Checked("unreadable", FALSE)
    ELSE IF getsize(f, file) = 0 THEN Checked("empty", FALSE)
    ELSE IF ~ExtensionOk(file) THEN Checked("bad_extension", FALSE)
    ELSE Checked(validate_fastq_format(f, file), TRUE)

CheckFile(f, file) ==
    IF ~isfile(f, file) THEN Checked("not_found", FALSE)
    ELSE IF ~access_R(f, file) THEN Checked("unreadable", FALSE)
    ELSE IF ~ExtensionOk(file) THEN Checked("bad_extension", FALSE)
    ELSE IF getsize(f, file) = 0 THEN Checked("empty", FALSE)
    ELSE Checked(validate_fastq_format(f, file), TRUE)

\* ValidationDone for a loop that returns after its first iteration
ValidationDoneAfterFirst(n, fl) == n > 1

\* The loop "for file in files" of argument_check is exhausted

ValidationDone(n, fl) == n > Len(fl)

---------------------------------------------------------------------------
(* fastq_to_fasta.                                                         *)

\* os.path.dirname(out_file) or '.'
OutDir(out) == IF dirname(out) = <<>> THEN Dot ELSE dirname(out)

\* PromptDue without the test for an existing output file
PromptNever(f, out) == FALSE

\* os.path.isfile(out_file): the overwrite prompt is due

PromptDue(f, out) == isfile(f, out)

\* Affirmative with the empty answer taken as a yes
AffirmativeOrEmpty(a) == Lower(a) \in {<<>>, <<"y">>, <<"y", "e", "s">>}

\* answer.lower() in ['y', 'yes']

Affirmative(a) == Lower(a) \in {<<"y">>, <<"y", "e", "s">>}

\* Writable without the test of the directory
WritableAlways(w, d) == TRUE

\* os.access(out_dir, os.W_OK)

Writable(w, d) == d \in w

\* What one line adds to fa at position n of the file
Emit(line, n) ==
    IF n % 4 = 0 THEN <<">">> \o Slice1(line)
    ELSE IF n % 4 = 1 THEN line
    ELSE <<>>

Msg(kind, path, n) == [kind |-> kind, path |-> path, n |-> n]

---------------------------------------------------------------------------
(* The states the script can be started in.                                *)

\* A record with "\r\n" terminators; a record read through a lone "\r" and
\* followed by an unterminated fifth line; half a record.
Good4 == <<"@", "A", CR, NL, "A", CR, NL, "+", CR, NL, "A", CR, NL>>
Good5 == <<"@", "A", CR, "A", NL, "+", NL, "A", NL, "@", "A">>
Bad2 == <<"@", "A", NL, "A", NL>>

FileStates ==
    {Absent, Unreadable(Good5), File(<<>>), File(Bad2), File(Good4), File(Good5)}

LineTexts == {<<>>, <<"@", "A">>, <<"+">>, <<"A">>}

RECURSIVE Join(_)
Join(ls) == IF ls = <<>> THEN <<>> ELSE Head(ls) \o <<NL>> \o Join(Tail(ls))

\* Every text of at most n lines over LineTexts, the last line terminated
\* or (when it is not blank) left unterminated.
Contents(n) ==
    LET lss == UNION {[1..m -> LineTexts] : m \in 0..n}
    IN  {Join(ls) : ls \in lss}
        \cup {SubSeq(Join(ls), 1, Len(Join(ls)) - 1) :
                ls \in {x \in lss : x # <<>> /\ Last(x) # <<>>}}

ArgLists == UNION {[1..m -> ArgPaths] : m \in 0..MaxFiles}

Range(s) == {s[j] : j \in 1..Len(s)}

\* The paths a run over fl can touch
Relevant(fl) == Range(fl) \cup {OutFile(p) : p \in Range(fl)}

\* A batch of up to MaxFiles arguments over files in a few states
InitBatch ==
    /\ files \in ArgLists
    /\ \E g \in [Relevant(files) -> FileStates] :
           fs = [p \in FsPaths |-> IF p \in Relevant(files) THEN g[p] ELSE Absent]
    /\ \E w \in SUBSET {OutDir(p) : p \in Relevant(files)} :
           wdirs = w \cup (Dirs \ {OutDir(p) : p \in Relevant(files)})

\* One argument, a.fastq, over every content of up to MaxLines lines
InitContent ==
    /\ files = <<PA>>
    /\ \E d \in Contents(MaxLines) :
           fs = [p \in FsPaths |-> IF p = PA THEN File(d) ELSE Absent]
    /\ wdirs = Dirs

Init ==
    /\ InitBatch \/ InitContent
    /\ pc = "argument_check"
    /\ i = 1
    /\ k = 1
    /\ out_file = <<>>
    /\ answer = <<>>
    /\ fq_pos = 1
    /\ fa = <<>>
    /\ line_num = 0
    /\ exit_status = -1
    /\ log = <<>>
    /\ run = 1
    /\ fs0 = fs
    /\ src0 = <<>>
    /\ sniffed = {}

---------------------------------------------------------------------------
(* The script.                                                             *)

Answers == {<<"y">>, <<"Y", "E", "S">>, <<"n">>, <<>>}

\* sys.exit(status) after printing msg
Exit(status, msg) ==
    /\ pc' = "exited"
    /\ exit_status' = status
    /\ log' = Append(log, msg)

\* argument_check: no argument was given
UsageError ==
    /\ pc = "argument_check"
    /\ files = <<>>
    /\ Exit(1, Msg("usage", <<>>, 0))
    /\ UNCHANGED <<files, fs, wdirs, i, k, out_file, answer, fq_pos, fa,
                   line_num, run, fs0, src0, sniffed>>

\* argument_check: one iteration of the loop over the files
ValidateFile ==
    /\ pc = "argument_check"
    /\ files # <<>>
    /\ ~ValidationDone(i, files)
    /\ LET file == files[i]
           verdict == CheckFile(fs, file)
       IN  /\ sniffed' = IF verdict.sniffer
                         THEN sniffed \cup {file} ELSE sniffed
           /\ IF verdict.verdict = "ok"
              THEN /\ i' = i + 1
                   /\ UNCHANGED <<pc, exit_status, log>>
              ELSE /\ Exit(1, Msg(verdict.verdict, file, 0))
                   /\ UNCHANGED i
    /\ UNCHANGED <<files, fs, wdirs, k, out_file, answer, fq_pos, fa,
                   line_num, run, fs0, src0>>

\* argument_check returns True and the main block calls fastq_to_fasta
StartConversion ==
    /\ pc = "argument_check"
    /\ files # <<>>
    /\ ValidationDone(i, files)
    /\ pc' = "fastq_to_fasta"
    /\ k' = 1
    /\ UNCHANGED <<files, fs, wdirs, i, out_file, answer, fq_pos, fa,
                   line_num, exit_status, log, run, fs0, src0, sniffed>>

\* fastq_to_fasta: the head of an iteration, up to the prompt
BeginFile ==
    /\ pc = "fastq_to_fasta"
    /\ k <= Len(files)
    /\ out_file' = OutFile(files[k])
    /\ src0' = fs[files[k]].data
    /\ IF PromptDue(fs, OutFile(files[k]))
       THEN /\ log' = Append(log, Msg("overwrite_prompt", OutFile(files[k]), 0))
            /\ pc' = "input"
       ELSE /\ pc' = "check_dir"
            /\ UNCHANGED log
    /\ UNCHANGED <<files, fs, wdirs, i, k, answer, fq_pos, fa, line_num,
                   exit_status, run, fs0, sniffed>>

\* input(...) returns a, and the answer is tested
Input(a) ==
    /\ pc = "input"
    /\ answer' = a
    /\ IF Affirmative(a)
       THEN /\ pc' = "check_dir"
            /\ UNCHANGED <<exit_status, log>>
       ELSE Exit(0, Msg("cancelled", <<>>, 0))
    /\ UNCHANGED <<files, fs, wdirs, i, k, out_file, fq_pos, fa, line_num,
                   run, fs0, src0, sniffed>>

\* input(...) meets the end of standard input: EOFError is not caught
InputEOF ==
    /\ pc = "input"
    /\ Exit(1, Msg("traceback", <<>>, 0))
    /\ UNCHANGED <<files, fs, wdirs, i, k, out_file, answer, fq_pos, fa,
                   line_num, run, fs0, src0, sniffed>>

\* The test of the output directory
CheckDir ==
    /\ pc = "check_dir"
    /\ IF Writable(wdirs, OutDir(out_file))
       THEN /\ pc' = "open"
            /\ UNCHANGED <<exit_status, log>>
       ELSE Exit(1, Msg("dir_not_writable", OutDir(out_file), 0))
    /\ UNCHANGED <<files, fs, wdirs, i, k, out_file, answer, fq_pos, fa,
                   line_num, run, fs0, src0, sniffed>>

\* with open(file, 'r') as fq, open(out_file, 'w') as fa: line_num = 0
OpenFiles ==
    /\ pc = "open"
    /\ fq_pos' = 1
    /\ fs' = [fs EXCEPT ![out_file] =
                 [exists |-> TRUE,
                  readable |-> IF fs[out_file].exists
                               THEN fs[out_file].readable ELSE TRUE,
                  data |-> <<>>]]
    /\ fa' = <<>>
    /\ line_num' = 0
    /\ pc' = "loop"
    /\ UNCHANGED <<files, wdirs, i, k, out_file, answer, exit_status, log,
                   run, fs0, src0, sniffed>>

\* One iteration of "for line in fq"
ConvertLine ==
    /\ pc = "loop"
    /\ LET text == Translate(fs[files[k]].data)
           line == readline(text, fq_pos)
       IN  /\ line # <<>>
           /\ fa' = fa \o Emit(line, line_num)
           /\ fq_pos' = fq_pos + Len(line)
    /\ line_num' = line_num + 1
    /\ UNCHANGED <<files, fs, wdirs, pc, i, k, out_file, answer,
                   exit_status, log, run, fs0, src0, sniffed>>

\* The end of the input: the warning, the closing of both handles (fa is
\* flushed) and the success message
FinishFile ==
    /\ pc = "loop"
    /\ readline(Translate(fs[files[k]].data), fq_pos) = <<>>
    /\ fs' = [fs EXCEPT ![out_file].data = fa]
    /\ fa' = <<>>
    /\ log' = (IF line_num % 4 # 0
               THEN Append(log, Msg("incomplete_records", files[k], line_num))
               ELSE log) \o <<Msg("converted", files[k], 0)>>
    /\ k' = k + 1
    /\ pc' = "fastq_to_fasta"
    /\ UNCHANGED <<files, wdirs, i, out_file, answer, fq_pos, line_num,
                   exit_status, run, fs0, src0, sniffed>>

\* fastq_to_fasta returns and the script ends
Finish ==
    /\ pc = "fastq_to_fasta"
    /\ k > Len(files)
    /\ Exit(0, Msg("all_converted", <<>>, 0))
    /\ UNCHANGED <<files, fs, wdirs, i, k, out_file, answer, fq_pos, fa,
                   line_num, run, fs0, src0, sniffed>>

\* The operator runs the script again with the same arguments
Rerun ==
    /\ pc = "exited"
    /\ run < MaxRuns
    /\ run' = run + 1
    /\ pc' = "argument_check"
    /\ i' = 1
    /\ k' = 1
    /\ out_file' = <<>>
    /\ answer' = <<>>
    /\ fq_pos' = 1
    /\ fa' = <<>>
    /\ line_num' = 0
    /\ exit_status' = -1
    /\ log' = <<>>
    /\ fs0' = fs
    /\ src0' = <<>>
    /\ sniffed' = {}
    /\ UNCHANGED <<files, fs, wdirs>>

Next ==
    \/ UsageError
    \/ ValidateFile
    \/ StartConversion
    \/ BeginFile
    \/ \E a \in Answers : Input(a)
    \/ InputEOF
    \/ CheckDir
    \/ OpenFiles
    \/ ConvertLine
    \/ FinishFile
    \/ Finish
    \/ Rerun

Spec == Init /\ [][Next]_vars

---------------------------------------------------------------------------
(* Vocabulary of the properties, stated apart from the code above.         *)

\* The lines of a text, terminators kept, found character by character
RECURSIVE Split(_, _)
Split(text, cur) ==
    IF text = <<>> THEN (IF cur = <<>> THEN <<>> ELSE <<cur>>)
    ELSE IF Head(text) = NL
         THEN <<Append(cur, NL)>> \o Split(Tail(text), <<>>)
         ELSE Split(Tail(text), Append(cur, Head(text)))

\* The lines of a file's content, as text-mode reading delimits them
LinesOf(d) == Split(Translate(d), <<>>)

\* N complete four-line records, every header starting with "@"
WellFormed(lines) ==
    /\ Len(lines) % 4 = 0
    /\ \A j \in 1..Len(lines) : (j - 1) % 4 = 0 => StartsWith(lines[j], "@")

\* "y" or "yes" in any letter case
YesWords ==
    {<<c>> : c \in {"y", "Y"}}
    \cup {<<c, d, e>> : c \in {"y", "Y"}, d \in {"e", "E"}, e \in {"s", "S"}}

\* The conversion of files[k - 1] has just completed
JustConverted ==
    /\ pc = "fastq_to_fasta"
    /\ k > 1
    /\ log # <<>>
    /\ Last(log) = Msg("converted", files[k - 1], 0)

\* The messages of the current run of kind kd
Printed(kd) == {j \in 1..Len(log) : log[j].kind = kd}

\* The messages argument_check and validate_fastq_format exit with
ValidationErrors ==
    {"not_found", "unreadable", "bad_extension", "empty", "incomplete",
     "no_header", "no_separator"}

\* The two letter cases of a character
AnyCase(c) ==
    CASE c = "a" -> {"a", "A"}
      [] c = "f" -> {"f", "F"}
      [] c = "q" -> {"q", "Q"}
      [] c = "s" -> {"s", "S"}
      [] c = "t" -> {"t", "T"}

\* The extension of a path, compared in any letter case, is .fastq or .fq
HasFastqExtension(path) ==
    LET n == Len(path)
    IN  \/ /\ n >= 6
           /\ path[n - 5] = "."
           /\ path[n - 4] \in AnyCase("f")
           /\ path[n - 3] \in AnyCase("a")
           /\ path[n - 2] \in AnyCase("s")
           /\ path[n - 1] \in AnyCase("t")
           /\ path[n] \in AnyCase("q")
        \/ /\ n >= 3
           /\ path[n - 2] = "."
           /\ path[n - 1] \in AnyCase("f")
           /\ path[n] \in AnyCase("q")

\* The first four lines of a content form a record
Sniffs(d) ==
    LET ls == LinesOf(d)
    IN  Len(ls) >= 4 /\ StartsWith(ls[1], "@") /\ StartsWith(ls[3], "+")

\* The error kinds due to a file, by the order of the checks
ErrorsDue(f, path) ==
    LET E == f[path].exists
        R == f[path].readable
        X == HasFastqExtension(path)
        S == f[path].data # <<>>
    IN  IF ~E THEN {"not_found"}
        ELSE IF ~R THEN {"unreadable"}
        ELSE IF ~X THEN {"bad_extension"}
        ELSE IF ~S THEN {"empty"}
        ELSE IF ~Sniffs(f[path].data)
             THEN {"incomplete", "no_header", "no_separator"}
        ELSE {}

\* The run has ended in argument_check
ValidationFailed ==
    pc = "exited" /\ log # <<>> /\ Last(log).kind \in ValidationErrors \cup {"usage"}

---------------------------------------------------------------------------
(* C1.                                                                     *)

\* The output holds two lines per record: ">" and the header without its
\* first character, then the sequence line.
RecordsConverted(inL, outL) ==
    /\ Len(outL) = 2 * (Len(inL) \div 4)
    /\ \A r \in 0..(Len(inL) \div 4) - 1 :
           /\ outL[2 * r + 1] = <<">">> \o Tail(inL[4 * r + 1])
           /\ outL[2 * r + 2] = inL[4 * r + 2]

\* C1: whenever the conversion of an input of N complete four-line records
\* (every header starting with "@") has completed, the output file holds
\* exactly 2N lines, line 2i being ">" and input line 4i without its first
\* character and line 2i+1 being input line 4i+1; no separator or quality
\* line appears in it.
C1_WellFormedConverted ==
    (JustConverted /\ WellFormed(LinesOf(src0)))
        => RecordsConverted(LinesOf(src0), LinesOf(fs[out_file].data))

\* The same, for the conversions whose output path is not their input path:
\* this holds.
WellFormedConvertedElsewhere ==
    (JustConverted /\ WellFormed(LinesOf(src0)) /\ out_file # files[k - 1])
        => RecordsConverted(LinesOf(src0), LinesOf(fs[out_file].data))

---------------------------------------------------------------------------
(* C2.                                                                     *)

\* C2: no input file is mutated by the run: whatever the accepted path and
\* whatever the operator answers, every file of the argument list holds
\* what it held when the run began.
C2_InputNeverMutated ==
    \A j \in 1..Len(files) : fs[files[j]] = fs0[files[j]]

\* The part of C2 about paths: the output path of a conversion is never its
\* input path.  This fails too.
OutputPathIsNotInput ==
    pc \in {"input", "check_dir", "open", "loop"} => out_file # files[k]

---------------------------------------------------------------------------
(* C9 and C10.                                                             *)

\* The input lines at positions 0 and 1 modulo 4, counted
Emitted(inL) == Cardinality({j \in 1..Len(inL) : (j - 1) % 4 \in {0, 1}})

\* C9: whenever the conversion of a validated input has completed (here:
\* into an output path other than the input path), the output file holds
\* exactly one line for every input line at position 0 mod 4 and one for
\* every input line at position 1 mod 4, and nothing else.
C9_OneLinePerHeaderAndSequence ==
    (JustConverted /\ out_file # files[k - 1])
        => Len(LinesOf(fs[out_file].data)) = Emitted(LinesOf(src0))

\* The part of C9 about the counter: it starts at 0, grows by one with
\* every line read and is never reset while the file is read.  This holds.
CounterCountsLines ==
    [][pc = "loop" /\ pc' = "loop"
          => /\ line_num' = line_num + 1
             /\ line_num' = Len(LinesOf(SubSeq(Translate(fs[files[k]].data),
                                               1, fq_pos' - 1)))]_vars

\* The incomplete-records warning of the conversion just completed
WarningOf(file, n) == Msg("incomplete_records", file, n)

Warned(file, n) == Len(log) >= 2 /\ log[Len(log) - 1] = WarningOf(file, n)

\* What the lines of a trailing partial record add to the output
PartialRecord(inL) ==
    LET first == 4 * (Len(inL) \div 4) + 1
    IN  IF Len(inL) % 4 = 0 THEN <<>>
        ELSE IF Len(inL) % 4 = 1 THEN <<">">> \o Slice1(inL[first])
        ELSE <<">">> \o Slice1(inL[first]) \o inL[first + 1]

\* C10: whenever a conversion has completed, the warning naming the file
\* and its line count has been printed just before the success message if
\* and only if the line count of the input is not a multiple of 4, the
\* header and sequence lines of a trailing partial record are at the end of
\* the output, and the run has gone on to the next file without exiting.
C10_WarningIffPartialRecord ==
    JustConverted
        => LET inL == LinesOf(src0)
           IN  /\ Warned(files[k - 1], Len(inL)) <=> Len(inL) % 4 # 0
               /\ EndsWith(fs[out_file].data, PartialRecord(inL))
               /\ exit_status = -1

\* The same, for the conversions whose output path is not their input path:
\* this holds.
WarningIffPartialRecordElsewhere ==
    (JustConverted /\ out_file # files[k - 1])
        => LET inL == LinesOf(src0)
           IN  /\ Warned(files[k - 1], Len(inL)) <=> Len(inL) % 4 # 0
               /\ EndsWith(fs[out_file].data, PartialRecord(inL))
               /\ exit_status = -1

---------------------------------------------------------------------------
(* C3.                                                                     *)

\* The files of the argument list that violate a check, in the file system
\* the run began with
Failing == {j \in 1..Len(files) : ErrorsDue(fs0, files[j]) # {}}

\* C3: if any file of the argument list, at any position, fails validation,
\* the run never leaves argument_check: no file is created or modified, no
\* overwrite prompt is shown, no conversion starts, and the run exits with
\* status 1.
C3_FailFastBatch ==
    Failing # {}
        => /\ fs = fs0
           /\ Printed("overwrite_prompt") = {}
           /\ Printed("converted") = {}
           /\ pc \in {"argument_check", "exited"}
           /\ pc = "exited" => exit_status = 1

\* A batch whose first file is valid and has an existing output, and whose
\* second file fails, has exited
C3_Witness ==
    /\ pc = "exited"
    /\ Len(files) = 2
    /\ Failing = {2}
    /\ isfile(fs0, OutFile(files[1]))
    /\ fs = fs0

---------------------------------------------------------------------------
(* C4.                                                                     *)

\* The step is an answer to the prompt (not the end of standard input)
Answered == pc = "input" /\ pc' # "input" /\ Last(log').kind # "traceback"

\* C4: an answer to the overwrite prompt other than "y" or "yes" in any
\* letter case (the empty answer too) ends the run at once with status 0
\* and leaves every file as it was, and once the run has exited nothing
\* follows but a new invocation: no later file is converted or prompted
\* for.
C4_DeclineEndsRun ==
    [][/\ (Answered /\ answer' \notin YesWords)
             => /\ pc' = "exited"
                /\ exit_status' = 0
                /\ fs' = fs
                /\ Last(log') = Msg("cancelled", <<>>, 0)
       /\ pc = "exited" => run' = run + 1 /\ log' = <<>>]_vars

\* The empty answer has ended a run in which a later file was still to be
\* converted
C4_Witness ==
    /\ pc = "exited"
    /\ exit_status = 0
    /\ answer = <<>>
    /\ Last(log) = Msg("cancelled", <<>>, 0)
    /\ k < Len(files)
    /\ fs[out_file] = fs0[out_file]

---------------------------------------------------------------------------
(* C5.                                                                     *)

\* C5: when the directory of the current output path is not writable, the
\* overwrite prompt is not shown for that file.
C5_NoPromptInUnwritableDir ==
    pc = "input" => OutDir(out_file) \in wdirs

\* C5, amended: when the directory of the current output path is not
\* writable, the run fails with status 1 and the message naming the
\* directory before any file is opened; it does so without a prompt when no
\* file exists at the output path, and after the prompt has been shown and
\* answered with a yes when one exists.
C5_DirCheckFollowsPrompt ==
    [][LET dir == OutDir(out_file')
           locked == dir \notin wdirs
       IN  /\ (pc = "fastq_to_fasta" /\ pc' # "exited" /\ locked)
                 => IF fs[out_file'].exists
                    THEN /\ pc' = "input"
                         /\ Last(log') = Msg("overwrite_prompt", out_file', 0)
                    ELSE pc' = "check_dir" /\ log' = log
           /\ (Answered /\ answer' \in YesWords /\ locked)
                 => pc' = "check_dir"
           /\ (pc = "check_dir" /\ locked)
                 => /\ pc' = "exited"
                    /\ exit_status' = 1
                    /\ Last(log') = Msg("dir_not_writable", dir, 0)
                    /\ fs' = fs
           /\ pc' \in {"open", "loop"} => ~locked]_vars

\* The run has failed on the directory after the prompt for an existing
\* output file was answered with a yes
C5_Witness ==
    /\ pc = "exited"
    /\ exit_status = 1
    /\ Len(log) >= 2
    /\ Last(log) = Msg("dir_not_writable", OutDir(out_file), 0)
    /\ log[Len(log) - 1] = Msg("overwrite_prompt", out_file, 0)
    /\ answer \in YesWords

---------------------------------------------------------------------------
(* C6.                                                                     *)

\* C6: a file that exists is changed only as the output of the current
\* conversion, and is opened for writing only when the last thing the run
\* printed is the overwrite prompt for that path and the answer to it was a
\* yes.
C6_OverwriteOnlyAfterYes ==
    [][\A p \in FsPaths :
           (fs[p].exists /\ fs'[p] # fs[p])
               => /\ p = out_file
                  /\ pc \in {"open", "loop"}
                  /\ pc = "open"
                        => /\ log # <<>>
                           /\ Last(log) = Msg("overwrite_prompt", p, 0)
                           /\ answer \in YesWords]_vars

\* A second run is writing over the output that the first run left
C6_Witness ==
    /\ run = 2
    /\ pc = "loop"
    /\ out_file # files[k]
    /\ fs0[out_file].exists
    /\ fs0[out_file].data # <<>>
    /\ fs[out_file].data = <<>>

---------------------------------------------------------------------------
(* C7.                                                                     *)

\* C7: argument_check exits with status 1 and a single message: the usage
\* message for an empty argument list, and otherwise the error of the first
\* violated check (existence, readability, extension, size, format) of the
\* first file in argument order that violates one; it returns when no file
\* violates any; and validate_fastq_format is never run on a file of size 0.
C7_FirstViolationReported ==
    LET bad == Failing
    IN  /\ (pc = "exited" /\ files = <<>>)
              => log = <<Msg("usage", <<>>, 0)>> /\ exit_status = 1
        /\ (pc = "exited" /\ bad # {})
              => /\ Len(log) = 1
                 /\ log[1].path = files[Min(bad)]
                 /\ log[1].kind \in ErrorsDue(fs0, files[Min(bad)])
                 /\ exit_status = 1
        /\ (files # <<>> /\ bad = {}) => ~ValidationFailed
        /\ ValidationFailed => exit_status = 1
        /\ \A p \in sniffed : fs0[p].data # <<>>

\* A batch has exited on a zero-byte second file, after a valid first one
C7_Witness ==
    /\ ValidationFailed
    /\ Len(files) = 2
    /\ i = 2
    /\ fs0[files[2]].exists
    /\ fs0[files[2]].data = <<>>
    /\ log = <<Msg("empty", files[2], 0)>>
    /\ sniffed = {files[1]}

---------------------------------------------------------------------------
(* C8.                                                                     *)

\* The verdict of validate_fastq_format on the file at position j of the
\* argument list, as the run shows it: "ok" once argument_check has gone
\* past the file, the message when the run exited on it, "none" before.
Verdict(j) ==
    IF j < i THEN "ok"
    ELSE IF j = i /\ ValidationFailed THEN Last(log).kind
    ELSE "none"

RejectedOnFirstLine ==
    /\ ValidationFailed
    /\ Last(log).kind = "no_header"
    /\ LET ls == LinesOf(fs0[files[1]].data)
       IN  Len(ls) >= 5 /\ StartsWith(ls[2], "@") /\ StartsWith(ls[4], "+")

====
